---- MODULE Spec2Model ----
(***************************************************************************)
(* News harvesting pipeline: news_scraper.py (harvest and batch writing),  *)
(* github_sync.py (remote mirror over the contents API) and scheduler.py   *)
(* (the continuous harvest-then-sync loop).                                *)
(*                                                                         *)
(* The module holds one specification per subsystem, over one set of       *)
(* variables; a specification leaves the other subsystems' variables at    *)
(* their idle values.                                                      *)
(*   SpecHarvest  scrape_from_rss / scrape_from_google_news /              *)
(*                scrape_from_website applied to bounded feeds             *)
(*   SpecSave     save_articles applied to bounded batches                 *)
(*   SpecSync     github_sync.main, sync_directory, upload_file            *)
(*   SpecRun      NewsScraperAutomation.__init__ and run                   *)
(*   SpecSched    scheduler.main, run_scraper_job, sync_to_github          *)
(***************************************************************************)
EXTENDS Integers, Sequences, FiniteSets, TLC

VARIABLES
    \* ---- harvest (news_scraper.py, the three scrape_* methods)
    h_pc,        \* "ready" | "done"
    h_feed,      \* what the feed / search / site call answers: [ok, entries]
    h_limit,     \* the limit argument, or NoArg when the caller omits it
    h_mode,      \* "none" | "rss" | "google" | "website"
    h_call,      \* the search API call made in google mode
    h_batch,     \* the returned list of articles
    \* ---- batch writer (news_scraper.py, save_articles)
    s_pc,        \* "ready" | "returned" | "raised"
    s_articles,  \* the batch handed to save_articles
    s_source,    \* its source_name
    clock,       \* wall clock, in seconds
    disk,        \* the files under data/: records [dir, base, ext]
    dirs,        \* the directories under data/
    csv_rows,    \* the rows of the last tabular artifact written
    s_written,   \* the files the last save_articles call wrote, in order
    s_calls,     \* history: number of save_articles calls made
    \* ---- remote sync (github_sync.py)
    g_pc,        \* position in main / sync_directory / upload_file
    g_env,       \* [token, repo]: whether each environment variable is set
    g_isdir,     \* whether the local directory exists
    g_files,     \* the walked tree, flattened in walk order
    g_idx,       \* index of the file being handled (0 before the walk)
    file_exists, \* upload_file's local of that name
    file_sha,    \* upload_file's local of that name
    g_requests,  \* the HTTP requests of the current upload_file call
    g_ret,       \* upload_file's return value for the current call
    g_uploads,   \* history: <<file index, return value>> per upload_file call
    success_count,
    g_result,    \* sync_directory's return value, NoResult until it returns
    \* ---- one cycle (news_scraper.py, __init__ / run)
    r_pc,        \* "init" | "feeds" | "top" | "topics" | "done" | "raised"
    r_env,       \* NEWS_SOURCES split on ',': a sequence of names
    news_sources,\* the loaded sources, in insertion order
    r_i,         \* loop index inside the feed loop / the topic loop
    r_log,       \* history: one record per harvest, in order
    \* ---- scheduler (scheduler.py)
    m_pc,        \* position of main / run_scraper_job
    m_env,       \* [token, repo]
    now,         \* wall clock in ticks of one sleep (60 s)
    registered,  \* whether schedule.every(..).do(..) has run
    next_run,    \* the job's next_run
    active,      \* number of cycles executing
    cycles,      \* history: number of cycles started
    last_failed, \* history: whether the last finished cycle raised
    after_failure, \* history: whether the running cycle follows one that raised
    last_end,    \* history: tick when the last cycle returned (-1: none yet)
    burst,       \* history: consecutive cycles started less than one interval
                 \* after the previous cycle's end
    job_error,   \* whether the running cycle has raised
    batches,     \* history: batches written by the scheduler's cycles
    pushes,      \* history: git pushes made
    startup_failed, \* history: whether the startup cycle raised
    overrun      \* history: whether the last finished scheduled cycle was still
                 \* running one interval after the firing that started it

hvars == <<h_pc, h_feed, h_limit, h_mode, h_call, h_batch>>
svars == <<s_pc, s_articles, s_source, clock, disk, dirs, csv_rows, s_written,
          s_calls>>
gvars == <<g_pc, g_env, g_isdir, g_files, g_idx, file_exists, file_sha,
           g_requests, g_ret, g_uploads, success_count, g_result>>
rvars == <<r_pc, r_env, news_sources, r_i, r_log>>
mvars == <<m_pc, m_env, now, registered, next_run, active, cycles, last_failed,
           after_failure, last_end, burst, job_error, batches, pushes, startup_failed, overrun>>
vars == <<hvars, svars, gvars, rvars, mvars>>

\* what a step of one subsystem leaves alone
HFrame == UNCHANGED <<svars, gvars, rvars, mvars>>
SFrame == UNCHANGED <<hvars, gvars, rvars, mvars>>
GFrame == UNCHANGED <<hvars, svars, rvars, mvars>>
RFrame == UNCHANGED <<hvars, gvars, mvars>>
MFrame == UNCHANGED <<hvars, svars, gvars, rvars>>

(***************************************************************************)
(* Bounds of the model.                                                    *)
(***************************************************************************)
MaxEntries == 12
MaxShortFeed == 2
MaxLimit == 3

Min(a, b) == IF a <= b THEN a ELSE b

Range(s) == {s[k] : k \in 1..Len(s)}

(***************************************************************************)
(* HARVEST                                                                 *)
(***************************************************************************)
NoArg == -1

\* defaults of the limit parameter
RssDefaultLimit == 10
GoogleDefaultLimit == 10
WebsiteDefaultLimit == 5

\* A source entry.  title, link, published, pubDate, summary, source say
\* whether the entry object has that attribute; page is the outcome of
\* Article.download() / parse() on its link; pdate whether the parsed page
\* carries a publish_date.
Entry(t, l, p, pd, s, src, page, pdate) ==
    [title |-> t, link |-> l, published |-> p, pubDate |-> pd, summary |-> s,
     source |-> src, page |-> page, pdate |-> pdate]

OkEntry == Entry(TRUE, TRUE, TRUE, FALSE, TRUE, TRUE, "ok", FALSE)

EntryShapes ==
    { OkEntry,
      [OkEntry EXCEPT !.pdate = TRUE],
      [OkEntry EXCEPT !.page = "fail"],
      [OkEntry EXCEPT !.title = FALSE],
      [OkEntry EXCEPT !.link = FALSE],
      [OkEntry EXCEPT !.published = FALSE, !.pubDate = TRUE],
      [OkEntry EXCEPT !.published = FALSE],
      [OkEntry EXCEPT !.summary = FALSE],
      [OkEntry EXCEPT !.source = FALSE] }

\* every feed of at most MaxShortFeed entries, and every feed of at most
\* MaxEntries entries with one entry of any shape among plain ones
ShortFeeds == UNION { [1..n -> EntryShapes] : n \in 0..MaxShortFeed }
LongFeeds ==
    { [k \in 1..n |-> IF k = b THEN s ELSE OkEntry] :
        <<n, b, s>> \in { <<n, b, s>> \in (1..MaxEntries) \X (1..MaxEntries) \X EntryShapes :
                             b <= n } }
Feeds == ShortFeeds \cup LongFeeds

\* the answer of feedparser.parse / gn.* / newspaper.build: it raises, or it
\* yields entries
FeedAnswers == {[ok |-> FALSE, entries |-> <<>>]} \cup {[ok |-> TRUE, entries |-> f] : f \in Feeds}

Limits == {NoArg} \cup (0..MaxLimit)

\* the published value of a feed-mode article before enrichment
RssPublished(entry) ==
    IF entry.published THEN "entry.published"
    ELSE IF entry.pubDate THEN "entry.pubDate"
    ELSE "now"

\* Text is a sequence of characters; characters are small numbers, 1 and 2
\* for the letters and 0 for the character '.'
Str(n) == [k \in 1..n |-> 1 + (k % 2)]
EntrySummary == Str(3)

RssSummary(entry) == IF entry.summary THEN EntrySummary ELSE << >>

\* the try/except around Article(link).download()/parse(), as the articles
\* the iteration appends.  DropUnextracted is the faulty variant that skips
\* an article whose extraction failed, as direct-site crawling does.
DropUnextracted(article, entry) ==
    IF entry.page = "ok"
    THEN <<[article EXCEPT !.text = "page.text", !.authors = <<"page.author">>,
                           !.top_image = "page.top_image",
                           !.published = IF entry.pdate THEN "page.publish_date" ELSE @]>>
    ELSE << >>
Enrich(article, entry) ==
    IF entry.page = "ok"
    THEN <<[article EXCEPT !.text = "page.text", !.authors = <<"page.author">>,
                           !.top_image = "page.top_image",
                           !.published = IF entry.pdate THEN "page.publish_date" ELSE @]>>
    ELSE <<[article EXCEPT !.text = "", !.authors = << >>, !.top_image = ""]>>

BlankArticle ==
    [title |-> 0, link |-> 0, published |-> "", summary |-> << >>, source |-> "",
     text |-> "unset", authors |-> <<"unset">>, top_image |-> "unset"]

\* whether reading the entry's fields raises AttributeError, which the
\* outer except of the method catches, ending the loop
RssEntryRaises(entry) == ~entry.title \/ ~entry.link
GoogleEntryRaises(entry) ==
    ~entry.title \/ ~entry.link \/ ~entry.published \/ ~entry.summary

\* the title and the link of the entry at position k are modelled as k
RssArticle(source_name, entry, k) ==
    [BlankArticle EXCEPT !.title = k, !.link = k, !.published = RssPublished(entry),
                         !.summary = RssSummary(entry), !.source = source_name]

GoogleArticle(entry, k) ==
    [BlankArticle EXCEPT !.title = k, !.link = k, !.published = "entry.published",
                         !.summary = EntrySummary,
                         !.source = IF entry.source THEN "entry.source.title"
                                    ELSE "Google News"]

RECURSIVE RssLoop(_, _, _, _, _)
RssLoop(source_name, entries, limit, i, articles) ==
    IF i >= Len(entries) \/ i >= limit THEN articles
    ELSE IF RssEntryRaises(entries[i + 1]) THEN articles
    ELSE RssLoop(source_name, entries, limit, i + 1,
                 articles \o Enrich(RssArticle(source_name, entries[i + 1], i + 1),
                                    entries[i + 1]))

scrape_from_rss(source_name, feed, limit) ==
    IF ~feed.ok THEN << >> ELSE RssLoop(source_name, feed.entries, limit, 0, << >>)

RECURSIVE GoogleLoop(_, _, _, _)
GoogleLoop(entries, limit, i, articles) ==
    IF i >= Len(entries) \/ i >= limit THEN articles
    ELSE IF GoogleEntryRaises(entries[i + 1]) THEN articles
    ELSE GoogleLoop(entries, limit, i + 1,
                    articles \o Enrich(GoogleArticle(entries[i + 1], i + 1),
                                       entries[i + 1]))

\* which search call the arguments select
GoogleCall(query, topic, location) ==
    IF query THEN "search"
    ELSE IF topic THEN "topic_headlines"
    ELSE IF location THEN "geo_headlines"
    ELSE "top_news"

scrape_from_google_news(results, limit) ==
    IF ~results.ok THEN << >> ELSE GoogleLoop(results.entries, limit, 0, << >>)

\* direct-site crawling: an article whose extraction fails is not appended
WebsiteArticle(url, entry, k) ==
    IF entry.page = "ok"
    THEN <<[title |-> k, link |-> k,
            published |-> IF entry.pdate THEN "page.publish_date" ELSE "now",
            summary |-> << >>, source |-> url, text |-> "page.text",
            authors |-> <<"page.author">>, top_image |-> "page.top_image"]>>
    ELSE << >>

RECURSIVE WebsiteLoop(_, _, _, _, _)
WebsiteLoop(url, entries, limit, i, articles) ==
    IF i >= Len(entries) \/ i >= limit THEN articles
    ELSE WebsiteLoop(url, entries, limit, i + 1,
                     articles \o WebsiteArticle(url, entries[i + 1], i + 1))

scrape_from_website(url, site, limit) ==
    IF ~site.ok THEN << >> ELSE WebsiteLoop(url, site.entries, limit, 0, << >>)

LimitOr(arg, default) == IF arg = NoArg THEN default ELSE arg

(***************************************************************************)
(* The harvest specification: one call of one scrape method on a bounded   *)
(* answer of the source.                                                   *)
(***************************************************************************)
HIdle ==
    /\ h_pc = "idle" /\ h_feed = [ok |-> FALSE, entries |-> << >>]
    /\ h_limit = NoArg /\ h_mode = "none" /\ h_call = "none" /\ h_batch = << >>

ScrapeRss ==
    /\ h_pc = "ready"
    /\ h_batch' = scrape_from_rss("bbc", h_feed, LimitOr(h_limit, RssDefaultLimit))
    /\ h_mode' = "rss"
    /\ h_pc' = "done"
    /\ UNCHANGED <<h_feed, h_limit, h_call>>
    /\ HFrame

ScrapeGoogle ==
    /\ h_pc = "ready"
    /\ \E query \in BOOLEAN, topic \in BOOLEAN, location \in BOOLEAN :
          h_call' = GoogleCall(query, topic, location)
    /\ h_batch' = scrape_from_google_news(h_feed, LimitOr(h_limit, GoogleDefaultLimit))
    /\ h_mode' = "google"
    /\ h_pc' = "done"
    /\ UNCHANGED <<h_feed, h_limit>>
    /\ HFrame

ScrapeWebsite ==
    /\ h_pc = "ready"
    /\ h_batch' = scrape_from_website("site", h_feed, LimitOr(h_limit, WebsiteDefaultLimit))
    /\ h_mode' = "website"
    /\ h_pc' = "done"
    /\ UNCHANGED <<h_feed, h_limit, h_call>>
    /\ HFrame

(***************************************************************************)
(* BATCH WRITER                                                            *)
(***************************************************************************)
MaxSummaryLen == 102
MaxBatch == 2
MaxElapse == 1
MaxClock == 3
MaxSaves == 2
DaySeconds == 2

\* the slice bound of the tabular summary
SummaryCut == 100
Ellipsis == <<0, 0, 0>>

\* article.get('summary', '')[:100] + '...' if article.get('summary', '') else ''
CsvSummary(summary) ==
    IF summary # << >>
    THEN SubSeq(summary, 1, Min(Len(summary), SummaryCut)) \o Ellipsis
    ELSE << >>

CsvRow(article) ==
    [title |-> article.title, published |-> article.published,
     source |-> article.source, link |-> article.link,
     summary |-> CsvSummary(article.summary)]

\* datetime.now().strftime('%Y-%m-%d') and int(time.time())
Today(t) == t \div DaySeconds
SecondStamp(t1, dt) == t1 + dt

File(date, source_name, ts, ext) ==
    [dir |-> <<date, source_name>>, base |-> <<source_name, ts>>, ext |-> ext]

\* if not articles: the warning and the early return
\* (SavesEmptyBatch: the faulty variant without that early return)
SavesEmptyBatch(articles) == FALSE
NothingToSave(articles) == articles = << >>

\* One call of save_articles on a disk state.  t is the clock when the call
\* starts, dt the seconds that pass between the two int(time.time()) calls;
\* mk, js and cs are the outcomes of os.makedirs, of writing the structured
\* file ("ok", "open" when open() raises, "dump" when json.dump raises on
\* the opened file) and of DataFrame.to_csv ("ok", "open" when it fails
\* before creating the file, "write" when it fails on the created file; the
\* except around it swallows both).  The result holds the new disk and
\* directories, the rows handed to to_csv, the files created and whether
\* the call raised.
save_articles(d, ds, articles, source_name, t, dt, mk, js, cs) ==
    LET source_dir == <<Today(t), source_name>>
        json == File(Today(t), source_name, t, "json")
        csv == File(Today(t), source_name, SecondStamp(t, dt), "csv")
        rows == [k \in 1..Len(articles) |-> CsvRow(articles[k])]
    IN  IF NothingToSave(articles)
        THEN [disk |-> d, dirs |-> ds, rows |-> << >>, written |-> << >>, raised |-> FALSE]
        ELSE IF ~mk
        THEN [disk |-> d, dirs |-> ds, rows |-> << >>, written |-> << >>, raised |-> TRUE]
        ELSE IF js = "open"
        THEN [disk |-> d, dirs |-> ds \cup {source_dir}, rows |-> << >>,
              written |-> << >>, raised |-> TRUE]
        ELSE IF js = "dump"
        THEN [disk |-> d \cup {json}, dirs |-> ds \cup {source_dir}, rows |-> << >>,
              written |-> <<json>>, raised |-> TRUE]
        ELSE IF cs = "open"
        THEN [disk |-> d \cup {json}, dirs |-> ds \cup {source_dir}, rows |-> rows,
              written |-> <<json>>, raised |-> FALSE]
        ELSE [disk |-> d \cup {json, csv}, dirs |-> ds \cup {source_dir}, rows |-> rows,
              written |-> <<json, csv>>, raised |-> FALSE]

\* the summary lengths tried: 0, 1, 2 and SummaryCut - 1 .. MaxSummaryLen
NumLens == 3 + (MaxSummaryLen - SummaryCut + 2)
LenAt(j) == IF j <= 3 THEN j - 1 ELSE SummaryCut - 1 + (j - 4)

SavedArticle(k, n) ==
    [BlankArticle EXCEPT !.title = k, !.link = k, !.published = "entry.published",
                         !.summary = Str(n), !.source = "bbc"]

\* the batches tried: n articles whose summaries take consecutive lengths
\* of the list above, starting at its j-th
SaveBatches ==
    { [k \in 1..n |-> SavedArticle(k, LenAt(((j + k - 2) % NumLens) + 1))] :
        <<n, j>> \in (0..MaxBatch) \X (1..NumLens) }

SaveSources == {"bbc", "google_news_top"}

SIdle ==
    /\ s_pc = "idle" /\ s_articles = << >> /\ s_source = "none" /\ clock = 0
    /\ disk = {} /\ dirs = {} /\ csv_rows = << >> /\ s_written = << >>
    /\ s_calls = 0

\* the caller hands a batch to save_articles
SaveCall ==
    /\ s_pc \in {"ready", "returned", "raised"}
    /\ \E b \in SaveBatches, src \in SaveSources :
          /\ s_articles' = b
          /\ s_source' = src
    /\ s_pc' = "called"
    /\ s_calls < MaxSaves
    /\ s_calls' = s_calls + 1
    /\ csv_rows' = << >>
    /\ s_written' = << >>
    /\ UNCHANGED <<clock, disk, dirs>>
    /\ SFrame

SaveArticles ==
    /\ s_pc = "called"
    /\ \E dt \in 0..MaxElapse, mk \in BOOLEAN, js \in {"ok", "open", "dump"}, cs \in {"ok", "open", "write"} :
          /\ clock + dt <= MaxClock
          /\ LET r == save_articles(disk, dirs, s_articles, s_source, clock, dt, mk, js, cs)
             IN  /\ disk' = r.disk
                 /\ dirs' = r.dirs
                 /\ csv_rows' = r.rows
                 /\ s_written' = r.written
                 /\ s_pc' = IF r.raised THEN "raised" ELSE "returned"
          /\ clock' = clock + dt
    /\ UNCHANGED <<s_articles, s_source, s_calls>>
    /\ SFrame

\* time passes between two calls
SaveTick ==
    /\ s_pc \in {"ready", "returned"}
    /\ clock < MaxClock
    /\ clock' = clock + 1
    /\ UNCHANGED <<s_pc, s_articles, s_source, disk, dirs, csv_rows, s_written, s_calls>>
    /\ SFrame

(***************************************************************************)
(* REMOTE SYNC                                                             *)
(***************************************************************************)
MaxFiles == 3

NoResult == -1
Extensions == {"json", "csv", "txt"}
Fingerprints == {"sha_a", "sha_b"}

\* what the existence probe can answer: a status with or without a usable
\* 'sha' in its body, or a transport error
ProbeAnswers ==
    {[status |-> "200", sha |-> f] : f \in Fingerprints}
    \cup {[status |-> st, sha |-> "nobody"] : st \in {"200", "404", "500", "error"}}

PutAnswers == {"200", "201", "422", "error"}

\* file.endswith('.json') or file.endswith('.csv')
Whitelisted(ext) == ext = "json" \/ ext = "csv"

\* the locals file_exists and file_sha after the probe's try block:
\* file_exists is assigned before response.json()['sha'] is evaluated
ProbeLocals(answer) ==
    IF answer.status = "200"
    THEN [file_exists |-> TRUE,
          file_sha |-> IF answer.sha \in Fingerprints THEN answer.sha ELSE "None"]
    ELSE [file_exists |-> FALSE, file_sha |-> "None"]

\* the 'sha' entry of the PUT body: "absent" when the key is not set
PutSha(exists, sha) == IF exists THEN sha ELSE "absent"

\* upload_file's return value for the PUT's answer
PutResult(answer) == answer \in {"200", "201"}

\* if self.upload_file(...): success_count += 1
\* (CountEveryAttempt: the faulty variant that counts failed uploads too)
CountEveryAttempt(count, ok) == count + 1
CountAfter(count, ok) == IF ok THEN count + 1 ELSE count

GIdle ==
    /\ g_pc = "idle" /\ g_env = [token |-> FALSE, repo |-> FALSE] /\ g_isdir = FALSE
    /\ g_files = << >> /\ g_idx = 0 /\ file_exists = FALSE /\ file_sha = "None"
    /\ g_requests = << >> /\ g_ret = FALSE /\ g_uploads = << >>
    /\ success_count = 0 /\ g_result = NoResult

\* GitHubSync.__init__: raise ValueError unless both variables are set
ConfigComplete(env) == env.token /\ env.repo

\* github_sync.main: GitHubSync() raises ValueError without the token or the
\* repository, which main catches; a missing data directory is logged
SyncMain ==
    /\ g_pc = "main"
    /\ g_pc' = IF ConfigComplete(g_env) /\ g_isdir THEN "sync_directory" ELSE "exit"
    /\ UNCHANGED <<g_env, g_isdir, g_files, g_idx, file_exists, file_sha,
                   g_requests, g_ret, g_uploads, success_count, g_result>>
    /\ GFrame

\* sync_directory's entry: return 0 when local_dir is no directory
SyncDirectory ==
    /\ g_pc = "sync_directory"
    /\ IF g_isdir
       THEN g_pc' = "walk" /\ UNCHANGED g_result
       ELSE g_pc' = "exit" /\ g_result' = 0
    /\ UNCHANGED <<g_env, g_isdir, g_files, g_idx, file_exists, file_sha,
                   g_requests, g_ret, g_uploads, success_count>>
    /\ GFrame

\* the walk reaches a file outside the whitelist: continue
WalkSkip ==
    /\ g_pc = "walk"
    /\ g_idx < Len(g_files)
    /\ ~Whitelisted(g_files[g_idx + 1])
    /\ g_idx' = g_idx + 1
    /\ UNCHANGED <<g_pc, g_env, g_isdir, g_files, file_exists, file_sha,
                   g_requests, g_ret, g_uploads, success_count, g_result>>
    /\ GFrame

\* the walk reaches a whitelisted file: upload_file is entered
WalkUpload ==
    /\ g_pc = "walk"
    /\ g_idx < Len(g_files)
    /\ Whitelisted(g_files[g_idx + 1])
    /\ g_idx' = g_idx + 1
    /\ g_pc' = "read"
    /\ g_requests' = << >>
    /\ file_exists' = FALSE
    /\ file_sha' = "None"
    /\ g_ret' = FALSE
    /\ UNCHANGED <<g_env, g_isdir, g_files, g_uploads, success_count, g_result>>
    /\ GFrame

\* the walk is exhausted: sync_directory returns success_count
WalkReturn ==
    /\ g_pc = "walk"
    /\ g_idx = Len(g_files)
    /\ g_result' = success_count
    /\ g_pc' = "exit"
    /\ UNCHANGED <<g_env, g_isdir, g_files, g_idx, file_exists, file_sha,
                   g_requests, g_ret, g_uploads, success_count>>
    /\ GFrame

\* open(local_path).read(): an unreadable file raises into the outer except,
\* which returns False
UploadRead ==
    /\ g_pc = "read"
    /\ \E readable \in BOOLEAN :
          g_pc' = IF readable THEN "probe" ELSE "ret"
    /\ UNCHANGED <<g_env, g_isdir, g_files, g_idx, file_exists, file_sha,
                   g_requests, g_ret, g_uploads, success_count, g_result>>
    /\ GFrame

\* requests.get on the path, inside its own try
UploadProbe ==
    /\ g_pc = "probe"
    /\ \E answer \in ProbeAnswers :
          /\ g_requests' = Append(g_requests, [verb |-> "GET", sha |-> "absent",
                                              status |-> answer.status,
                                              answered |-> answer.sha])
          /\ file_exists' = ProbeLocals(answer).file_exists
          /\ file_sha' = ProbeLocals(answer).file_sha
    /\ g_pc' = "put"
    /\ UNCHANGED <<g_env, g_isdir, g_files, g_idx, g_ret, g_uploads,
                   success_count, g_result>>
    /\ GFrame

\* requests.put with the prepared body; a transport error raises into the
\* outer except, which returns False
UploadPut ==
    /\ g_pc = "put"
    /\ \E answer \in PutAnswers :
          /\ g_requests' = Append(g_requests, [verb |-> "PUT",
                                              sha |-> PutSha(file_exists, file_sha),
                                              status |-> answer, answered |-> "nobody"])
          /\ g_ret' = PutResult(answer)
    /\ g_pc' = "ret"
    /\ UNCHANGED <<g_env, g_isdir, g_files, g_idx, file_exists, file_sha,
                   g_uploads, success_count, g_result>>
    /\ GFrame

\* upload_file returns to sync_directory's loop
UploadReturn ==
    /\ g_pc = "ret"
    /\ g_uploads' = Append(g_uploads, <<g_idx, g_ret>>)
    /\ success_count' = CountAfter(success_count, g_ret)
    /\ g_pc' = "walk"
    /\ UNCHANGED <<g_env, g_isdir, g_files, g_idx, file_exists, file_sha,
                   g_requests, g_ret, g_result>>
    /\ GFrame

(***************************************************************************)
(* ONE CYCLE                                                               *)
(***************************************************************************)
MaxNames == 2

Predefined == {"cnn", "bbc", "theguardian", "xinhua"}
DefaultSources == <<"cnn", "bbc", "theguardian">>
NameChoices == {"cnn", "bbc", "unknown"}
Topics == <<"business", "technology", "health">>

\* load_news_sources: the names of NEWS_SOURCES that are predefined, as the
\* keys of a dict (insertion order, a repeated name keeps its first place)
RECURSIVE LoadLoop(_, _, _)
LoadLoop(names, i, loaded) ==
    IF i > Len(names) THEN loaded
    ELSE LoadLoop(names, i + 1,
                  IF names[i] \in Predefined /\ names[i] \notin Range(loaded)
                  THEN Append(loaded, names[i]) ELSE loaded)

load_news_sources(names) == LoadLoop(names, 1, << >>)

\* the name save_articles gets for a topic harvest: f'google_news_{topic}'
TopicSource(topic) ==
    CASE topic = "business" -> "google_news_business"
      [] topic = "technology" -> "google_news_technology"
      [] topic = "health" -> "google_news_health"

\* the answers a source gives inside a cycle
RunAnswers ==
    { [ok |-> FALSE, entries |-> << >>],
      [ok |-> TRUE, entries |-> << >>],
      [ok |-> TRUE, entries |-> <<[OkEntry EXCEPT !.page = "fail"]>>] }

\* whether the scrape method lets the failure of its feed / search call out:
\* its outer except catches it (HarvestRaisesOnFailure: the faulty variant
\* without that except)
HarvestRaisesOnFailure(answer) == ~answer.ok
HarvestRaises(answer) == FALSE

RIdle ==
    /\ r_pc = "idle" /\ r_env = << >> /\ news_sources = << >> /\ r_i = 0
    /\ r_log = << >>

\* NewsScraperAutomation.__init__
RunInit ==
    /\ r_pc = "init"
    /\ news_sources' = load_news_sources(r_env)
    /\ r_pc' = IF load_news_sources(r_env) = << >> THEN "top" ELSE "feeds"
    /\ r_i' = 0
    /\ UNCHANGED <<r_env, r_log, svars>>
    /\ RFrame

\* one harvest of run followed by its save_articles: the effect on the log,
\* the disk and the position.  after is the position when the step does not
\* raise.  Inside a cycle the clock is held: no second passes between the
\* two file names.
RunStep(source_name, call, answer, articles, mk, js, cs, after) ==
    LET r == save_articles(disk, dirs, articles, source_name, clock, 0, mk, js, cs)
    IN  IF HarvestRaises(answer)
        THEN /\ r_log' = Append(r_log, [source |-> source_name, call |-> call,
                                        failed |-> TRUE, n |-> 0, wrote |-> 0,
                                        raised |-> TRUE])
             /\ r_pc' = "raised"
             /\ UNCHANGED <<disk, dirs>>
        ELSE /\ r_log' = Append(r_log, [source |-> source_name, call |-> call,
                                        failed |-> ~answer.ok, n |-> Len(articles),
                                        wrote |-> Len(r.written),
                                        raised |-> r.raised])
             /\ disk' = r.disk
             /\ dirs' = r.dirs
             /\ r_pc' = IF r.raised THEN "raised" ELSE after

\* an iteration of the loop over self.news_sources
RunFeed ==
    /\ r_pc = "feeds"
    /\ \E answer \in RunAnswers, mk \in BOOLEAN, js \in {"ok", "open", "dump"}, cs \in {"ok", "open", "write"} :
          RunStep(news_sources[r_i + 1], "rss", answer,
                  scrape_from_rss(news_sources[r_i + 1], answer, RssDefaultLimit),
                  mk, js, cs,
                  IF r_i + 1 = Len(news_sources) THEN "top" ELSE "feeds")
    /\ r_i' = r_i + 1
    /\ UNCHANGED <<r_env, news_sources, s_pc, s_articles, s_source, clock, csv_rows, s_written,
                   s_calls>>
    /\ RFrame

\* the top-headlines harvest
RunTop ==
    /\ r_pc = "top"
    /\ \E answer \in RunAnswers, mk \in BOOLEAN, js \in {"ok", "open", "dump"}, cs \in {"ok", "open", "write"} :
          RunStep("google_news_top", GoogleCall(FALSE, FALSE, FALSE), answer,
                  scrape_from_google_news(answer, GoogleDefaultLimit),
                  mk, js, cs, "topics")
    /\ r_i' = 0
    /\ UNCHANGED <<r_env, news_sources, s_pc, s_articles, s_source, clock, csv_rows, s_written,
                   s_calls>>
    /\ RFrame

\* an iteration of the loop over topics
RunTopic ==
    /\ r_pc = "topics"
    /\ \E answer \in RunAnswers, mk \in BOOLEAN, js \in {"ok", "open", "dump"}, cs \in {"ok", "open", "write"} :
          RunStep(TopicSource(Topics[r_i + 1]), GoogleCall(FALSE, TRUE, FALSE), answer,
                  scrape_from_google_news(answer, GoogleDefaultLimit),
                  mk, js, cs,
                  IF r_i + 1 = Len(Topics) THEN "done" ELSE "topics")
    /\ r_i' = r_i + 1
    /\ UNCHANGED <<r_env, news_sources, s_pc, s_articles, s_source, clock, csv_rows, s_written,
                   s_calls>>
    /\ RFrame

(***************************************************************************)
(* SCHEDULER                                                               *)
(***************************************************************************)
\* SCRAPE_INTERVAL in ticks, the length of the modelled time line and the
\* batches one cycle can write
IntervalTicks == 2
MaxTime == 9
MaxRunBatches == 1

MIdle ==
    /\ m_pc = "idle" /\ m_env = [token |-> FALSE, repo |-> FALSE] /\ now = 0
    /\ registered = FALSE /\ next_run = 0 /\ active = 0 /\ cycles = 0
    /\ last_failed = FALSE /\ after_failure = FALSE /\ last_end = -1 /\ burst = 0
    /\ job_error = FALSE /\ batches = 0 /\ pushes = 0 /\ startup_failed = FALSE
    /\ overrun = FALSE

\* schedule's Job._schedule_next_run, called when the job is registered and
\* after each run of the job function: next_run = datetime.now() + period
\* (FixedRateNextRun: the faulty variant that keeps a fixed-rate time table,
\* so that firings missed during a long cycle are all made up)
FixedRateNextRun(previous, t) == previous + IntervalTicks
ScheduleNextRun(previous, t) == t + IntervalTicks

\* where control goes when a statement of run_scraper_job's try block
\* raises: its except logs and the function returns (Propagate: the faulty
\* variant without the except, where the exception leaves main)
Propagate(pc) == "crashed"
OnJobException(pc) == "jobend"

\* run_scraper_job is entered
StartCycle ==
    /\ active' = active + 1
    /\ cycles' = cycles + 1
    /\ burst' = IF last_end >= 0 /\ now < last_end + IntervalTicks THEN burst + 1 ELSE 0
    /\ after_failure' = (last_end >= 0 /\ last_failed)
    /\ job_error' = FALSE
    /\ m_pc' = "construct"

\* main: the immediate first run
MainStartup ==
    /\ m_pc = "startup"
    /\ StartCycle
    /\ UNCHANGED <<m_env, now, registered, next_run, last_failed, last_end,
                   batches, pushes, startup_failed, overrun>>
    /\ MFrame

\* scraper = NewsScraperAutomation()
JobConstruct ==
    /\ m_pc = "construct"
    /\ \E ok \in BOOLEAN :
          /\ m_pc' = IF ok THEN "run" ELSE OnJobException(m_pc)
          /\ job_error' = ~ok
    /\ UNCHANGED <<m_env, now, registered, next_run, active, cycles, last_failed,
                   after_failure, last_end, burst, batches, pushes, startup_failed, overrun>>
    /\ MFrame

\* scraper.run(): it writes some batches, and returns or raises (a failed
\* structured write)
JobRun ==
    /\ m_pc = "run"
    /\ \E nb \in 0..MaxRunBatches, ok \in BOOLEAN :
          /\ batches' = batches + nb
          /\ m_pc' = IF ok THEN "sync" ELSE OnJobException(m_pc)
          /\ job_error' = ~ok
    /\ UNCHANGED <<m_env, now, registered, next_run, active, cycles, last_failed,
                   after_failure, last_end, burst, pushes, startup_failed, overrun>>
    /\ MFrame

\* sync_to_github(): skipped with a warning when the token or the repository
\* is missing; otherwise the git commands run, and a failing command or an
\* exception ends the function, which never raises
JobSync ==
    /\ m_pc = "sync"
    /\ IF ~(m_env.token /\ m_env.repo)
       THEN UNCHANGED pushes
       ELSE \E pushed \in BOOLEAN : pushes' = IF pushed THEN pushes + 1 ELSE pushes
    /\ m_pc' = "jobend"
    /\ UNCHANGED <<m_env, now, registered, next_run, active, cycles, last_failed,
                   after_failure, last_end, burst, job_error, batches, startup_failed, overrun>>
    /\ MFrame

\* run_scraper_job returns; for a scheduled run, schedule then sets next_run
JobEnd ==
    /\ m_pc = "jobend"
    /\ active' = active - 1
    /\ last_end' = now
    /\ last_failed' = job_error
    /\ overrun' = (registered /\ now >= next_run + IntervalTicks)
    /\ IF registered
       THEN /\ next_run' = ScheduleNextRun(next_run, now)
            /\ m_pc' = "sleep"
            /\ UNCHANGED startup_failed
       ELSE /\ m_pc' = "register"
            /\ startup_failed' = job_error
            /\ UNCHANGED next_run
    /\ job_error' = FALSE
    /\ UNCHANGED <<m_env, now, registered, cycles, after_failure, burst, batches, pushes>>
    /\ MFrame

\* schedule.every(SCRAPE_INTERVAL).hours.do(run_scraper_job)
MainRegister ==
    /\ m_pc = "register"
    /\ registered' = TRUE
    /\ next_run' = now + IntervalTicks
    /\ m_pc' = "loop"
    /\ UNCHANGED <<m_env, now, active, cycles, last_failed, after_failure, last_end,
                   burst, job_error, batches, pushes, startup_failed, overrun>>
    /\ MFrame

\* schedule.run_pending() with the job due
RunPendingDue ==
    /\ m_pc = "loop"
    /\ now >= next_run
    /\ StartCycle
    /\ UNCHANGED <<m_env, now, registered, next_run, last_failed, last_end,
                   batches, pushes, startup_failed, overrun>>
    /\ MFrame

\* schedule.run_pending() with nothing due
RunPendingIdle ==
    /\ m_pc = "loop"
    /\ now < next_run
    /\ m_pc' = "sleep"
    /\ UNCHANGED <<m_env, now, registered, next_run, active, cycles, last_failed,
                   after_failure, last_end, burst, job_error, batches, pushes,
                   startup_failed, overrun>>
    /\ MFrame

\* time.sleep(60)
Sleep ==
    /\ m_pc = "sleep"
    /\ now < MaxTime
    /\ now' = now + 1
    /\ m_pc' = "loop"
    /\ UNCHANGED <<m_env, registered, next_run, active, cycles, last_failed,
                   after_failure, last_end, burst, job_error, batches, pushes,
                   startup_failed, overrun>>
    /\ MFrame

\* time passes while a cycle executes
Elapse ==
    /\ m_pc \in {"construct", "run", "sync", "jobend"}
    /\ now < MaxTime
    /\ now' = now + 1
    /\ UNCHANGED <<m_pc, m_env, registered, next_run, active, cycles, last_failed,
                   after_failure, last_end, burst, job_error, batches, pushes,
                   startup_failed, overrun>>
    /\ MFrame

(***************************************************************************)
(* SPECIFICATIONS                                                          *)
(***************************************************************************)
InitHarvest ==
    /\ h_pc = "ready" /\ h_feed \in FeedAnswers /\ h_limit \in Limits
    /\ h_mode = "none" /\ h_call = "none" /\ h_batch = << >>
    /\ SIdle /\ GIdle /\ RIdle /\ MIdle

NextHarvest == ScrapeRss \/ ScrapeGoogle \/ ScrapeWebsite

SpecHarvest == InitHarvest /\ [][NextHarvest]_vars

InitSave ==
    /\ s_pc = "ready" /\ s_articles = << >> /\ s_source = "none" /\ clock = 0
    /\ disk = {} /\ dirs = {} /\ csv_rows = << >> /\ s_written = << >>
    /\ s_calls = 0
    /\ HIdle /\ GIdle /\ RIdle /\ MIdle

NextSave == SaveCall \/ SaveArticles \/ SaveTick

SpecSave == InitSave /\ [][NextSave]_vars

InitSync ==
    /\ g_pc \in {"main", "sync_directory"}
    /\ g_env \in [token : BOOLEAN, repo : BOOLEAN]
    /\ g_isdir \in BOOLEAN
    /\ g_files \in UNION { [1..n -> Extensions] : n \in 0..MaxFiles }
    /\ (~g_isdir => g_files = << >>)
    /\ g_idx = 0 /\ file_exists = FALSE /\ file_sha = "None"
    /\ g_requests = << >> /\ g_ret = FALSE /\ g_uploads = << >>
    /\ success_count = 0 /\ g_result = NoResult
    /\ HIdle /\ SIdle /\ RIdle /\ MIdle

NextSync ==
    \/ SyncMain \/ SyncDirectory \/ WalkSkip \/ WalkUpload \/ WalkReturn
    \/ UploadRead \/ UploadProbe \/ UploadPut \/ UploadReturn

SpecSync == InitSync /\ [][NextSync]_vars

InitRun ==
    /\ r_pc = "init"
    /\ r_env \in {DefaultSources} \cup UNION { [1..n -> NameChoices] : n \in 0..MaxNames }
    /\ news_sources = << >> /\ r_i = 0 /\ r_log = << >>
    /\ HIdle /\ SIdle /\ GIdle /\ MIdle

NextRun == RunInit \/ RunFeed \/ RunTop \/ RunTopic

SpecRun == InitRun /\ [][NextRun]_vars

InitSched ==
    /\ m_pc = "startup"
    /\ m_env \in [token : BOOLEAN, repo : BOOLEAN]
    /\ now = 0 /\ registered = FALSE /\ next_run = 0 /\ active = 0 /\ cycles = 0
    /\ last_failed = FALSE /\ after_failure = FALSE /\ last_end = -1 /\ burst = 0
    /\ job_error = FALSE /\ batches = 0 /\ pushes = 0 /\ startup_failed = FALSE
    /\ overrun = FALSE
    /\ HIdle /\ SIdle /\ GIdle /\ RIdle

NextSched ==
    \/ MainStartup \/ JobConstruct \/ JobRun \/ JobSync \/ JobEnd \/ MainRegister
    \/ RunPendingDue \/ RunPendingIdle \/ Sleep \/ Elapse

SpecSched == InitSched /\ [][NextSched]_vars

\* the default specification: the continuous scheduler
Init == InitSched
Next == NextSched
Spec == SpecSched

(***************************************************************************)
(* PROPERTIES                                                              *)
(***************************************************************************)
SetMin(S) == CHOOSE k \in S : \A j \in S : k <= j

\* the limit in force in the finished harvest call
LimitInForce ==
    LimitOr(h_limit, CASE h_mode = "rss" -> RssDefaultLimit
                       [] h_mode = "google" -> GoogleDefaultLimit
                       [] OTHER -> WebsiteDefaultLimit)

\* how many of the first `limit` entries precede the first one whose own feed
\* fields cannot be read; the outcome of extracting a page plays no part
ReadablePrefix(entries, limit, mode) ==
    LET m == Min(Len(entries), limit)
        bad == {k \in 1..m : IF mode = "rss" THEN RssEntryRaises(entries[k])
                                             ELSE GoogleEntryRaises(entries[k])}
    IN  IF bad = {} THEN m ELSE SetMin(bad) - 1

Degraded(article) ==
    article.text = "" /\ article.authors = << >> /\ article.top_image = ""

\* C1: in feed and search mode an article whose download or parse fails is
\* in the batch as a degraded record (text, authors, top_image empty), and
\* which entries are in the batch is decided by the limit and by the
\* entries' own feed fields alone: no extraction failure removes or skips
\* another article, and the k-th record is the k-th entry.
ExtractionFailureIsolated ==
    (h_pc = "done" /\ h_mode \in {"rss", "google"}) =>
        /\ Len(h_batch) = ReadablePrefix(h_feed.entries, LimitInForce, h_mode)
        /\ \A k \in 1..Len(h_batch) :
              /\ h_batch[k].link = k
              /\ h_feed.entries[k].page = "fail" => Degraded(h_batch[k])
              /\ h_feed.entries[k].page = "ok" => h_batch[k].text = "page.text"

\* a feed-mode batch where an extraction failed and the next entry is there
ExtractionFailureIsolatedWitness ==
    /\ h_pc = "done" /\ h_mode = "rss"
    /\ \E k \in 1..Len(h_batch) :
          /\ k < Len(h_batch)
          /\ h_feed.entries[k].page = "fail"
          /\ Degraded(h_batch[k])
          /\ h_batch[k + 1].text = "page.text"

\* what C2 says the tabular summary is
ClaimedCsvSummary(summary) ==
    IF Len(summary) <= SummaryCut THEN summary
    ELSE SubSeq(summary, 1, SummaryCut) \o Ellipsis

\* C2: the summary column of every tabular row is the input summary
\* unchanged when it has at most 100 characters, and its first 100
\* characters followed by '...' when it is longer.
TabularSummaryAsClaimed ==
    \A k \in 1..Len(csv_rows) :
        csv_rows[k].summary = ClaimedCsvSummary(s_articles[k].summary)

\* the requests of the finished upload_file call, by verb
Gets == SelectSeq(g_requests, LAMBDA q : q.verb = "GET")
Puts == SelectSeq(g_requests, LAMBDA q : q.verb = "PUT")

\* C3: in every upload_file call exactly one probe precedes at most one
\* write; the write's body carries 'sha' exactly when the probe found the
\* path to exist, its value then being the fingerprint the probe returned,
\* and no 'sha' after any other probe outcome; the call returns True exactly
\* when the write answers 200 or 201.
UploadRequestsAsClaimed ==
    g_pc = "ret" =>
        /\ Len(Gets) <= 1 /\ Len(Puts) <= 1
        /\ Len(Puts) = 1 => (Len(g_requests) = 2 /\ g_requests[1].verb = "GET")
        /\ Len(Puts) = 1 =>
              /\ (Puts[1].sha # "absent") <=> (Gets[1].status = "200")
              /\ Puts[1].sha # "absent" =>
                    (Puts[1].sha \in Fingerprints /\ Puts[1].sha = Gets[1].answered)
        /\ g_ret <=> (Len(Puts) = 1 /\ Puts[1].status \in {"200", "201"})

\* the upload_file calls made so far that returned True
Successes == {k \in 1..Len(g_uploads) : g_uploads[k][2]}

\* C4: sync_directory calls upload_file once for every .json or .csv file
\* of the tree, in walk order, whatever the earlier uploads returned, never
\* for another file, and returns the number of calls that returned True.
SyncCountsSuccesses ==
    /\ success_count = Cardinality(Successes)
    /\ \A k \in 1..Len(g_uploads) :
          /\ g_files[g_uploads[k][1]] \in {"json", "csv"}
          /\ k > 1 => g_uploads[k - 1][1] < g_uploads[k][1]
    /\ g_result # NoResult =>
          /\ g_result = Cardinality(Successes)
          /\ {g_uploads[k][1] : k \in 1..Len(g_uploads)}
                = {i \in 1..Len(g_files) : g_files[i] \in {"json", "csv"}}
    /\ (g_pc = "exit" /\ (g_idx > 0 \/ g_uploads # << >>)) => g_result # NoResult

\* a finished sync where a failed upload was followed by a successful one
\* and a file outside the whitelist was passed over
SyncCountsSuccessesWitness ==
    /\ g_pc = "exit" /\ g_result = 1
    /\ Len(g_uploads) = 2
    /\ ~g_uploads[1][2] /\ g_uploads[2][2]
    /\ \E i \in 1..Len(g_files) : g_files[i] = "txt"

\* C5: no two cycles execute at once, a cycle executes exactly while
\* run_scraper_job is on the stack, and firings that came due during a cycle
\* lead to at most one cycle started less than an interval after its end.
CyclesNeverOverlap ==
    /\ active <= 1
    /\ (active = 1) <=> (m_pc \in {"construct", "run", "sync", "jobend"})
    /\ burst <= 1

\* a cycle is executing after a scheduled cycle that overran its interval
CyclesNeverOverlapWitness ==
    /\ overrun /\ active = 1 /\ cycles >= 3

\* C6: an error raised in a cycle ends that cycle only: main is never left,
\* and once the cycle has returned the job is registered with its next
\* firing one interval after the cycle's end, for the startup cycle and for
\* every later one.
CycleErrorContained ==
    /\ m_pc # "crashed"
    /\ job_error => m_pc = "jobend"
    /\ m_pc \in {"loop", "sleep"} =>
          (registered /\ next_run = last_end + IntervalTicks)
    /\ (m_pc = "loop" /\ now >= next_run) => ENABLED RunPendingDue

\* the startup cycle raised, a later cycle raised, and a cycle runs again
CycleErrorContainedWitness ==
    /\ startup_failed /\ after_failure /\ cycles >= 3 /\ active = 1

\* C7: with GITHUB_TOKEN or GITHUB_REPO missing the continuous scheduler
\* executes no harvest cycle and writes no batch.
MissingConfigIsFatal ==
    ~ConfigComplete(m_env) => (cycles = 0 /\ batches = 0)

\* the sources one cycle harvests, in order
ExpectedSources ==
    news_sources \o <<"google_news_top", "google_news_business",
                      "google_news_technology", "google_news_health">>

\* C8: one cycle harvests every configured feed source, then the top
\* headlines, then business, technology and health, each once and persisted
\* in that order; a failed feed or search call gives an empty batch with
\* nothing written and does not end the cycle, which only a failed write of
\* a non-empty batch does.
CycleHarvestsInOrder ==
    /\ r_pc # "init" =>
          /\ Range(news_sources) = Range(r_env) \cap Predefined
          /\ Cardinality(Range(news_sources)) = Len(news_sources)
    /\ Len(r_log) <= Len(ExpectedSources)
    /\ \A k \in 1..Len(r_log) :
          /\ r_log[k].source = ExpectedSources[k]
          /\ r_log[k].call = (IF k <= Len(news_sources) THEN "rss"
                              ELSE IF k = Len(news_sources) + 1 THEN "top_news"
                              ELSE "topic_headlines")
          /\ r_log[k].failed => (r_log[k].n = 0 /\ ~r_log[k].raised)
          /\ r_log[k].n = 0 =>
                (r_log[k].wrote = 0 /\ \A f \in disk : f.dir[2] # r_log[k].source)
          /\ r_log[k].raised => (k = Len(r_log) /\ r_log[k].n > 0 /\ r_pc = "raised")
          /\ (r_log[k].n > 0 /\ ~r_log[k].raised) => r_log[k].wrote >= 1
    /\ r_pc = "raised" => (r_log # << >> /\ r_log[Len(r_log)].raised)
    /\ r_pc = "done" => Len(r_log) = Len(ExpectedSources)

\* a finished cycle with two feed sources where a failed call was followed
\* by a source whose batch was written in both forms
CycleHarvestsInOrderWitness ==
    /\ r_pc = "done" /\ Len(news_sources) = 2
    /\ \E k \in 1..(Len(r_log) - 1) : r_log[k].failed /\ r_log[k + 1].wrote = 2
    /\ r_log[1].failed

\* C9: a feed or search source that returns n entries, harvested with limit
\* L, gives exactly min(n, L) records, the k-th being the k-th entry; the
\* default limit is 10 for feed and search and 5 for direct-site crawling.
HarvestHoldsMinRecords ==
    (h_pc = "done" /\ h_feed.ok) =>
        /\ h_mode \in {"rss", "google"} =>
              /\ Len(h_batch) = Min(Len(h_feed.entries), LimitOr(h_limit, 10))
              /\ \A k \in 1..Len(h_batch) : h_batch[k].link = k
        /\ h_mode = "website" =>
              /\ Len(h_batch) <= Min(Len(h_feed.entries), LimitOr(h_limit, 5))
              /\ \A k \in 1..Len(h_batch) :
                    h_batch[k].link <= Min(Len(h_feed.entries), LimitOr(h_limit, 5))

\* C10: the two artifacts of a written batch lie in the same directory and
\* carry the same base name <source_name>_<unix_timestamp>, whatever time
\* passes between the two writes; a failed tabular write leaves the
\* structured artifact in place.
ArtifactsShareBaseName ==
    /\ Len(s_written) = 2 =>
          /\ s_written[1].ext = "json" /\ s_written[2].ext = "csv"
          /\ s_written[1].dir = s_written[2].dir
          /\ s_written[1].base = s_written[2].base
    /\ (s_pc = "returned" /\ s_articles # << >>) =>
          (Len(s_written) >= 1 /\ s_written[1].ext = "json" /\ s_written[1] \in disk)

\* what a step adds to the data directory
NewFiles == disk' \ disk
NewDirs == dirs' \ dirs

\* C11: save_articles on an empty batch creates no directory and no file,
\* structured or tabular; over any sequence of calls, starting from an empty
\* data directory, a file or a directory appears only during a call whose
\* batch is non-empty, and it lies under that call's source.
EmptyBatchWritesNothing ==
    /\ disk = {} /\ dirs = {}
    /\ [][ /\ (s_pc = "called" /\ s_articles = << >>) =>
                 (disk' = disk /\ dirs' = dirs /\ s_written' = << >>
                  /\ csv_rows' = << >> /\ s_pc' = "returned")
            /\ \A f \in NewFiles :
                  /\ s_pc = "called" /\ s_articles # << >>
                  /\ f.dir[2] = s_source /\ f.base[1] = s_source
            /\ \A sd \in NewDirs :
                  /\ s_pc = "called" /\ s_articles # << >>
                  /\ sd[2] = s_source ]_vars

\* an empty batch was handed in for a source whose earlier batch is on disk,
\* and the call has returned with the data directory as that batch left it
EmptyBatchWritesNothingWitness ==
    /\ s_pc = "returned" /\ s_articles = << >> /\ s_calls >= 2
    /\ s_written = << >>
    /\ \E f \in disk : f.dir[2] = s_source /\ f.ext = "csv"
    /\ \A f \in disk : f.dir[2] = s_source

====
